---------------------------- MODULE Spec2Model ----------------------------
(***************************************************************************)
(* Cache abstraction layer of the Across API PoC: the in-memory provider   *)
(* (src/src/shared/cache/memory.ts), the Upstash provider                  *)
(* (src/unnamed/part_004), the factory (src/src/adapters/cloudflare.ts)    *)
(* and the read-through use of the cache by FeesService                    *)
(* (src/src/modules/fees/service.ts).                                      *)
(***************************************************************************)
EXTENDS Integers, Sequences, FiniteSets, TLC

(***************************************************************************)
(* Bounds of the model.                                                    *)
(***************************************************************************)
MaxTicks == 4
MaxTTL == 1
MaxBatch == 2
MaxFeeTicks == 3

(***************************************************************************)
(* Program constants.                                                      *)
(***************************************************************************)
MsPerSec == 1000
FeesTTL == 60
MinAmount == 1000000
ExclusivityWindow == 300
DefaultTTLFallback == 300
LimitsTTL == 300
ReadyTTL == 10

TickMs == MsPerSec \div 2

Keys == {"k1", "k2"}
\* Cached values are opaque objects; null is an object of its own kind.
Values == {[data |-> "v1"], [data |-> "v2"]}
Null == [isNull |-> TRUE]

\* An optional number (ttlSeconds?, expiresAt?, defaultTTL?): <<>> is
\* undefined, <<n>> is the number n.
None == <<>>
Some(n) == <<n>>
OptTTLs == {None} \cup {Some(t) : t \in 0..MaxTTL}
DefaultTTLs == {None, Some(MaxTTL)}

\* JavaScript truthiness of an optional number: undefined and 0 are falsy.
Truthy(opt) == opt # None /\ opt[1] # 0

KeySeqs == UNION {[1..n -> Keys] : n \in 0..MaxBatch}

VARIABLES
    config,     \* the CacheConfig handed to the factory
    provider,   \* the provider object the factory built
    cache,      \* MemoryCacheProvider.cache: a Map from key to CacheEntry
    now,        \* Date.now(), in milliseconds
    ret,        \* what the most recent step returned to its caller
    hist,       \* history per key: the most recent set not followed by a delete or flush
    redis,      \* the remote store behind the Upstash client
    uret,       \* how the most recent Upstash provider call settled
    mset,       \* the Upstash provider's mset in progress: its per-entry sets
    reqs,       \* the getSuggestedFees calls: where each stands and what it holds
    wcount,     \* history per cache key: how many sets have been applied to it
    env,        \* process.env: a map from variable name to string
    batch,      \* the in-memory provider's mset in progress
    app         \* the application: its modules, the SDK, what it has served

memVars == <<config, provider, cache, now, ret, hist>>
upVars == <<redis, uret, mset>>
feeVars == <<reqs, wcount>>
appVars == <<env, batch, app>>
vars == <<config, provider, cache, now, ret, hist, redis, uret, mset, reqs,
          wcount, env, batch, app>>

(***************************************************************************)
(* Map helpers: a Map is a function whose DOMAIN is the set of its keys.   *)
(***************************************************************************)
MapSet(m, k, e) == [x \in DOMAIN m \cup {k} |-> IF x = k THEN e ELSE m[x]]
MapDelete(m, k) == [x \in DOMAIN m \ {k} |-> m[x]]
EmptyMap == [x \in {} |-> 0]

(***************************************************************************)
(* The factory.                                                            *)
(***************************************************************************)
\* An optional string: <<>> is undefined, <<s>> is the string s; undefined
\* and "" are falsy.
Falsy(optStr) == optStr = None \/ optStr = <<"">>

Thrown(msg) == [kind |-> "thrown", defaultTTL |-> None, error |-> msg]

\* new UpstashCacheProvider(config): throws unless url and token are there.
NewUpstashCacheProvider(cfg) ==
    IF \/ cfg.upstash = None
       \/ Falsy(cfg.upstash[1].url)
       \/ Falsy(cfg.upstash[1].token)
    THEN Thrown("Upstash configuration required")
    ELSE [kind |-> "upstash", defaultTTL |-> cfg.defaultTTL, error |-> ""]

\* Variant: the constructor takes whatever credentials it is given.
CreateCacheProviderUnchecked(cfg) ==
    IF cfg.provider = "upstash"
    THEN [kind |-> "upstash", defaultTTL |-> cfg.defaultTTL, error |-> ""]
    ELSE IF cfg.provider = "memory"
    THEN [kind |-> "memory", defaultTTL |-> None, error |-> ""]
    ELSE Thrown("Unsupported cache provider")

CreateCacheProvider(cfg) ==
    IF cfg.provider = "upstash" THEN NewUpstashCacheProvider(cfg)
    ELSE IF cfg.provider = "memory"
    THEN [kind |-> "memory", defaultTTL |-> None, error |-> ""]
    ELSE Thrown("Unsupported cache provider")

\* process.env as createCacheProviderFromEnv reads it.
NoEnv == [x \in {} |-> ""]
EnvGet(e, name) == IF name \in DOMAIN e THEN <<e[name]>> ELSE None

\* parseInt(s, 10) on the strings the model puts in CACHE_DEFAULT_TTL.
ParseInt(s) == CASE s = "0" -> 0 [] s = "60" -> 60

\* Variant: the credentials block is filled in whatever the tag is.
ConfigFromEnvAlwaysUpstash(e) ==
    [provider |-> IF Falsy(EnvGet(e, "CACHE_PROVIDER")) THEN "memory"
                  ELSE e["CACHE_PROVIDER"],
     upstash |-> <<[url |-> EnvGet(e, "UPSTASH_REDIS_REST_URL"),
                    token |-> EnvGet(e, "UPSTASH_REDIS_REST_TOKEN")]>>,
     defaultTTL |-> IF Falsy(EnvGet(e, "CACHE_DEFAULT_TTL"))
                    THEN Some(DefaultTTLFallback)
                    ELSE Some(ParseInt(e["CACHE_DEFAULT_TTL"]))]

ConfigFromEnv(e) ==
    LET tag == IF Falsy(EnvGet(e, "CACHE_PROVIDER")) THEN "memory"
               ELSE e["CACHE_PROVIDER"]
    IN  [provider |-> tag,
         upstash |-> IF tag = "upstash"
                     THEN <<[url |-> EnvGet(e, "UPSTASH_REDIS_REST_URL"),
                             token |-> EnvGet(e, "UPSTASH_REDIS_REST_TOKEN")]>>
                     ELSE None,
         defaultTTL |-> IF Falsy(EnvGet(e, "CACHE_DEFAULT_TTL"))
                        THEN Some(DefaultTTLFallback)
                        ELSE Some(ParseInt(e["CACHE_DEFAULT_TTL"]))]

\* Environments: each variable unset, empty or set.
Envs ==
    {e \in UNION {[names -> {"", "memory", "upstash", "redis", "u", "t", "0", "60"}] :
                    names \in SUBSET {"CACHE_PROVIDER", "UPSTASH_REDIS_REST_URL",
                                      "UPSTASH_REDIS_REST_TOKEN",
                                      "CACHE_DEFAULT_TTL"}} :
        /\ "CACHE_PROVIDER" \in DOMAIN e =>
               e["CACHE_PROVIDER"] \in {"", "memory", "upstash", "redis"}
        /\ "UPSTASH_REDIS_REST_URL" \in DOMAIN e =>
               e["UPSTASH_REDIS_REST_URL"] \in {"", "u"}
        /\ "UPSTASH_REDIS_REST_TOKEN" \in DOMAIN e =>
               e["UPSTASH_REDIS_REST_TOKEN"] \in {"", "t"}
        /\ "CACHE_DEFAULT_TTL" \in DOMAIN e =>
               e["CACHE_DEFAULT_TTL"] \in {"", "0", "60"}}

\* Config objects handed to createCacheProvider directly.
Credentials == {None} \cup {<<[url |-> u, token |-> t]>> :
                                u \in {None, <<"">>, <<"u">>},
                                t \in {None, <<"t">>}}
UpstashCredentials == <<[url |-> <<"u">>, token |-> <<"t">>]>>
Configs ==
    [provider : {"memory", "upstash", "redis"}, upstash : Credentials,
     defaultTTL : DefaultTTLs]

NoConfig == [provider |-> "", upstash |-> None, defaultTTL |-> None]
NoProvider == [kind |-> "none", defaultTTL |-> None, error |-> ""]

NoBatch == [status |-> "idle", entries |-> <<>>, i |-> 0]
\* What a dynamic import settles with: "rejected", or the module.  The SDK
\* module has constants.CHAIN_IDs or no constants at all; the contracts
\* module's getDeployedAddress("SpokePoolPeriphery", 10) returns or throws.
SdkModules == {"withChainIds", "noConstants"}
ContractsModules == {"lookupOk", "lookupThrows"}
SdkChainIds == <<1, 10>>
SdkDefaultChains == <<1, 10, 137, 42161>>
SdkFallbackChains == <<1, 10, 137, 42161, 8453, 59144>>

NoValidation ==
    [settled |-> "none", sdkVersion |-> "", chainsSupported |-> <<>>,
     constantsAvailable |-> FALSE, loadedSuccessfully |-> FALSE]

\* Variant: validateSDKCompatibility without its try/catch.
ValidateSDKCompatibilityNoCatch(sdk, contracts) ==
    IF sdk = "rejected" \/ contracts \in {"rejected", "lookupThrows"}
    THEN [NoValidation EXCEPT !.settled = "rejected"]
    ELSE [settled |-> "resolved", sdkVersion |-> "4.3.99",
          chainsSupported |-> IF sdk = "withChainIds" THEN SdkChainIds
                              ELSE SdkDefaultChains,
          constantsAvailable |-> sdk # "noConstants",
          loadedSuccessfully |-> TRUE]

\* validateSDKCompatibility: what it settles with, given what loadSDK and
\* loadContracts settle with.  Any throw inside the try block, a rejected
\* import or a throwing getDeployedAddress, ends in the catch block.
ValidateSDKCompatibility(sdk, contracts) ==
    IF sdk = "rejected" \/ contracts \in {"rejected", "lookupThrows"}
    THEN [settled |-> "resolved", sdkVersion |-> "4.3.99",
          chainsSupported |-> SdkFallbackChains,
          constantsAvailable |-> FALSE, loadedSuccessfully |-> FALSE]
    ELSE [settled |-> "resolved", sdkVersion |-> "4.3.99",
          chainsSupported |-> IF sdk = "withChainIds" THEN SdkChainIds
                              ELSE SdkDefaultChains,
          constantsAvailable |-> sdk # "noConstants",
          loadedSuccessfully |-> TRUE]

\* GET /ready: the probe entry and the answer built from what was read back.
ReadyKey == "_ready_check"
ReadyOk == [data |-> "ok"]
NoReady == [pc |-> "idle", value |-> Null, status |-> "", cache |-> "",
            error |-> "none"]

ReadyResponse(value) ==
    [NoReady EXCEPT !.pc = "done", !.value = value, !.status = "ready",
                    !.cache = IF value = ReadyOk THEN "connected" ELSE "error"]

ReadyFailure(err) ==
    [NoReady EXCEPT !.pc = "done", !.status = "not_ready", !.cache = "error",
                    !.error = err]

\* sdk: the @across-protocol/sdk module as the static import left it;
\* sdkPromise, contractsPromise: the module-level promises of loadSDK and
\* loadContracts; validation: the latest answer of validateSDKCompatibility;
\* ready: the GET /ready request in progress or last answered.
NoApp == [state |-> "off", sdk |-> "unloaded", sdkPromise |-> "null",
          contractsPromise |-> "null", served |-> {},
          validation |-> NoValidation, ready |-> NoReady]

(***************************************************************************)
(* MemoryCacheProvider.                                                    *)
(***************************************************************************)
\* Variant: the expiry test with >= in place of >.
MemExpiredAtDeadline(entry, t) ==
    Truthy(entry.expiresAt) /\ t >= entry.expiresAt[1]

MemExpired(entry, t) == Truthy(entry.expiresAt) /\ t > entry.expiresAt[1]

MemGetResult(c, key, t) ==
    IF key \notin DOMAIN c THEN Null
    ELSE IF MemExpired(c[key], t) THEN Null
    ELSE c[key].value

\* Variant: the delete of get runs on an entry whose deadline was not
\* checked against the clock of this turn.
MemGetCacheUnchecked(c, key, t) ==
    IF key \in DOMAIN c /\ Truthy(c[key].expiresAt)
    THEN MapDelete(c, key) ELSE c

\* Variant: a get that finds its entry expired removes every expired entry.
MemGetCacheSweep(c, key, t) ==
    IF key \in DOMAIN c /\ MemExpired(c[key], t)
    THEN [x \in {y \in DOMAIN c : ~MemExpired(c[y], t)} |-> c[x]]
    ELSE c

\* Variant: get removes the entry from its deadline on.
MemGetCacheEager(c, key, t) ==
    IF key \in DOMAIN c /\ MemExpiredAtDeadline(c[key], t)
    THEN MapDelete(c, key) ELSE c

MemGetCache(c, key, t) ==
    IF key \in DOMAIN c /\ MemExpired(c[key], t) THEN MapDelete(c, key) ELSE c

\* getStats: the size of the map and its keys.
MemGetStats(c) == [size |-> Cardinality(DOMAIN c), keys |-> DOMAIN c]

MemExpiresAt(ttlSeconds, t) ==
    IF Truthy(ttlSeconds) THEN Some(t + ttlSeconds[1] * MsPerSec) ELSE None

\* Variant: set keeps an entry that is already in the map.
MemSetCacheIfAbsent(c, key, value, ttlSeconds, t) ==
    IF key \in DOMAIN c THEN c
    ELSE MapSet(c, key, [value |-> value, expiresAt |-> MemExpiresAt(ttlSeconds, t)])

\* Variant: set on a key that is in the map replaces the value and keeps
\* the expiry.
MemSetCacheKeepsExpiry(c, key, value, ttlSeconds, t) ==
    IF key \in DOMAIN c
    THEN MapSet(c, key, [value |-> value, expiresAt |-> c[key].expiresAt])
    ELSE MapSet(c, key, [value |-> value, expiresAt |-> MemExpiresAt(ttlSeconds, t)])

MemSetCache(c, key, value, ttlSeconds, t) ==
    MapSet(c, key, [value |-> value, expiresAt |-> MemExpiresAt(ttlSeconds, t)])

\* Variant: delete leaves the entry where it is.
MemDeleteCacheNoop(c, key) == c

\* Variant: delete of a key that is not in the map clears the map.
MemDeleteCacheClearsOnMiss(c, key) ==
    IF key \in DOMAIN c THEN [x \in DOMAIN c \ {key} |-> c[x]]
    ELSE [x \in {} |-> 0]

MemDeleteCache(c, key) == MapDelete(c, key)

\* Variant: flush leaves one of the entries behind.
MemFlushCacheKeepsOne(c) ==
    IF DOMAIN c = {} THEN c
    ELSE [x \in {CHOOSE k \in DOMAIN c : TRUE} |-> c[x]]

MemFlushCache(c) == EmptyMap

\* Variant: exists without the expiry check.
MemExistsResultNoExpiry(c, key, t) == key \in DOMAIN c

MemExistsResult(c, key, t) ==
    IF key \notin DOMAIN c THEN FALSE
    ELSE IF MemExpired(c[key], t) THEN FALSE
    ELSE TRUE

\* mget: Promise.all(keys.map(get)); every get runs to its end, in input
\* order, inside the synchronous map call.
RECURSIVE MemMgetCache(_, _, _)
MemMgetCache(c, keys, t) ==
    IF keys = <<>> THEN c
    ELSE MemMgetCache(MemGetCache(c, Head(keys), t), Tail(keys), t)

\* Variant: a key repeated at the head of the list is resolved once.
MemMgetResultDedup(c, keys, t) ==
    LET ks == IF Len(keys) >= 2 /\ keys[1] = keys[2] THEN Tail(keys) ELSE keys
    IN  [i \in 1..Len(ks) |-> MemGetResult(c, ks[i], t)]

RECURSIVE MemMgetResult(_, _, _)
MemMgetResult(c, keys, t) ==
    IF keys = <<>> THEN <<>>
    ELSE <<MemGetResult(c, Head(keys), t)>>
         \o MemMgetResult(MemGetCache(c, Head(keys), t), Tail(keys), t)

\* mset: for (const { key, value, ttlSeconds } of entries) await this.set(...)
\* Batch entries: each key with and without a TTL, under different values.
MemEntries ==
    {[key |-> "k1", value |-> [data |-> "v1"], ttlSeconds |-> None],
     [key |-> "k1", value |-> [data |-> "v2"], ttlSeconds |-> Some(1)],
     [key |-> "k2", value |-> [data |-> "v1"], ttlSeconds |-> Some(1)],
     [key |-> "k2", value |-> [data |-> "v2"], ttlSeconds |-> None]}
MemEntrySeqs == UNION {[1..n -> MemEntries] : n \in 0..MaxBatch}

\* Variant: an entry without ttlSeconds takes the TTL of the entry before it.
MemMsetTTLInherited(entries, i) ==
    IF entries[i].ttlSeconds = <<>> /\ i > 1 THEN entries[i - 1].ttlSeconds
    ELSE entries[i].ttlSeconds

\* The TTL the i-th set of an mset is called with.
MemMsetTTL(entries, i) == entries[i].ttlSeconds

\* Variant: the first set of the mset writes the whole batch.
RECURSIVE MemMsetApplyAll(_, _, _, _)
MemMsetApplyAll(c, entries, i, t) ==
    IF i > Len(entries) THEN c
    ELSE MemMsetApplyAll(MemSetCache(c, entries[i].key, entries[i].value,
                                     entries[i].ttlSeconds, t),
                         entries, i + 1, t)

\* The map after the i-th set of the mset.
MemMsetApply(c, entries, i, t) ==
    MemSetCache(c, entries[i].key, entries[i].value, MemMsetTTL(entries, i), t)

(***************************************************************************)
(* History kept for the claims: what the caller did, not what the map      *)
(* holds.                                                                  *)
(***************************************************************************)
\* last: the most recent set, mset, delete or flush that touched the key;
\* prior: what the map held for the key when that delete or flush ran.
NoHist == [live |-> FALSE, value |-> Null, setTime |-> 0, ttl |-> None,
           expiresAt |-> None, last |-> "none", prior |-> "none"]

PriorState(c, key, t) ==
    IF key \notin DOMAIN c THEN "absent"
    ELSE IF MemExpired(c[key], t) THEN "expired"
    ELSE "live"

HistSet(c, key, value, ttlSeconds, t, by) ==
    [live |-> TRUE, value |-> value, setTime |-> t, ttl |-> ttlSeconds,
     expiresAt |-> c[key].expiresAt, last |-> by, prior |-> "none"]

Ret(op, key, keys, result, results, flag) ==
    [op |-> op, key |-> key, keys |-> keys, result |-> result,
     results |-> results, flag |-> flag]

(***************************************************************************)
(* UpstashCacheProvider: each method wraps one call of the Redis client in *)
(* try/catch.  err is the error the client raised, NoErr when it answered. *)
(***************************************************************************)
NoErr == "none"
Errors == {"E1", "E2"}
BackendErrs == {NoErr} \cup Errors

Resolved(value, values, flag) ==
    [kind |-> "resolved", value |-> value, values |-> values, flag |-> flag,
     error |-> NoErr]
Rejected(err) ==
    [kind |-> "rejected", value |-> Null, values |-> <<>>, flag |-> FALSE,
     error |-> err]

\* The remote store: redis.get, redis.exists, redis.mget as the client
\* answers them.
RedisGet(store, key) == IF key \in DOMAIN store THEN store[key].value ELSE Null
RedisExists(store, key) == IF key \in DOMAIN store THEN 1 ELSE 0
RedisMget(store, keys) == [i \in 1..Len(keys) |-> RedisGet(store, keys[i])]
RedisApply(store, c) == MapSet(store, c.key, [value |-> c.value, ttl |-> c.ttl])

UpGetOutcome(store, key, err) ==
    IF err = NoErr THEN Resolved(RedisGet(store, key), <<>>, FALSE)
    ELSE Resolved(Null, <<>>, FALSE)

\* set: ttl = ttlSeconds ?? this.defaultTTL; setex when ttl is truthy, else set.
UpSetCommand(key, value, ttlSeconds, defaultTTL) ==
    LET ttl == IF ttlSeconds # None THEN ttlSeconds ELSE defaultTTL
    IN  IF Truthy(ttl)
        THEN [cmd |-> "setex", key |-> key, value |-> value, ttl |-> ttl]
        ELSE [cmd |-> "set", key |-> key, value |-> value, ttl |-> None]

\* Variant: set's catch block logs the error and returns.
UpSetOutcomeSwallow(err) == Resolved(Null, <<>>, FALSE)

UpSetOutcome(err) ==
    IF err = NoErr THEN Resolved(Null, <<>>, FALSE) ELSE Rejected(err)

UpDeleteOutcome(err) ==
    IF err = NoErr THEN Resolved(Null, <<>>, FALSE) ELSE Rejected(err)

UpExistsOutcome(store, key, err) ==
    IF err = NoErr THEN Resolved(Null, <<>>, RedisExists(store, key) = 1)
    ELSE Resolved(Null, <<>>, FALSE)

UpFlushOutcome(err) ==
    IF err = NoErr THEN Resolved(Null, <<>>, FALSE) ELSE Rejected(err)

\* Variant: mget's catch block rethrows like the write methods.
UpMgetOutcomeRethrow(store, keys, err) ==
    IF keys = <<>> THEN Resolved(Null, <<>>, FALSE)
    ELSE IF err = NoErr THEN Resolved(Null, RedisMget(store, keys), FALSE)
    ELSE Rejected(err)

UpMgetOutcome(store, keys, err) ==
    IF keys = <<>> THEN Resolved(Null, <<>>, FALSE)
    ELSE IF err = NoErr THEN Resolved(Null, RedisMget(store, keys), FALSE)
    ELSE Resolved(Null, [i \in 1..Len(keys) |-> Null], FALSE)

\* mset: Promise.all(entries.map(set)).  entries.map calls set for every
\* entry, and each set sends its command before its first await.
UpMsetCommands(entries, defaultTTL) ==
    [i \in 1..Len(entries) |->
        UpSetCommand(entries[i].key, entries[i].value, entries[i].ttlSeconds,
                     defaultTTL)]

\* Variant: Promise.allSettled, then reject if any set failed.
UpMsetStatusAllSettled(sets) ==
    IF \E i \in 1..Len(sets) : sets[i] = "inflight" THEN "pending"
    ELSE IF \E i \in 1..Len(sets) : sets[i] = "failed" THEN "rejected"
    ELSE "resolved"

\* Promise.all over the per-entry promises: rejected as soon as one of them
\* is, resolved once all are.
UpMsetStatus(sets) ==
    IF \E i \in 1..Len(sets) : sets[i] = "failed" THEN "rejected"
    ELSE IF \A i \in 1..Len(sets) : sets[i] = "ok" THEN "resolved"
    ELSE "pending"

UpValues == {[data |-> "v1"]}
UpTTLs == {None, Some(0), Some(1)}
UpEntries == [key : Keys, value : UpValues, ttlSeconds : {None}]
\* Batches of entries with pairwise different keys.
UpEntrySeqs ==
    {es \in UNION {[1..n -> UpEntries] : n \in 0..MaxBatch} :
        \A i, j \in 1..Len(es) : i # j => es[i].key # es[j].key}

Uret(op, keys, out, beErr, calls) ==
    [op |-> op, keys |-> keys, out |-> out, beErr |-> beErr, calls |-> calls]

NoMset == [status |-> "idle", error |-> NoErr, n |-> 0, cmds |-> <<>>,
           sets |-> <<>>]

(***************************************************************************)
(* FeesService.getSuggestedFees: read-through caching of a computed        *)
(* response.                                                               *)
(***************************************************************************)
FeeTickMs == FeesTTL * MsPerSec

\* The concurrent getSuggestedFees calls.
ReqIds == {1, 2, 3}

\* What the remote store does to a call of FeesService: answer, or fail.
FeeErrs == {NoErr, "E1"}

\* Query strings that pass the schema: amount matches ^\d+$.
AmountStrs == {"999999", "1000000"}
BigInt(s) == CASE s = "999999" -> 999999 [] s = "1000000" -> 1000000

Usdc == "0xA0b86991c6218b36c1d19D4a2e9Eb0cE3606eB48"
ZeroAddress == "0x0000000000000000000000000000000000000000"
Depositors == {None, <<"0x0000000000000000000000000000000000000001">>}

Queries ==
    [amount : AmountStrs, inputToken : {Usdc}, outputToken : {Usdc},
     destinationChainId : {"10"}, originChainId : {None},
     depositor : Depositors]

\* const { ..., originChainId = "1" } = query
OriginOf(q) == IF q.originChainId = None THEN "1" ELSE q.originChainId[1]

\* Variant: the key leaves the amount out.
FeesCacheKeyNoAmount(q) ==
    <<"fees", OriginOf(q), q.destinationChainId, q.inputToken, q.outputToken,
      "">>

\* `fees:${originChainId}:${destinationChainId}:${inputToken}:${outputToken}:${amount}`
FeesCacheKey(q) ==
    <<"fees", OriginOf(q), q.destinationChainId, q.inputToken, q.outputToken,
      q.amount>>

FeesCacheKeys == {FeesCacheKey(q) : q \in Queries}

\* The response built on a miss, at time t.
FeesResponse(q, t) ==
    [timestamp |-> t,
     isAmountTooLow |-> BigInt(q.amount) < MinAmount,
     exclusiveRelayer |-> IF q.depositor # None THEN <<ZeroAddress>> ELSE None,
     exclusivityDeadline |->
         IF q.depositor # None
         THEN Some((t \div MsPerSec) + ExclusivityWindow) ELSE None]

\* Variant: a hit stamps the cached response with the current time.
FeesOnLookupRestamp(cached, q, t) ==
    IF cached # Null
    THEN [hit |-> TRUE, response |-> [cached EXCEPT !.timestamp = t]]
    ELSE [hit |-> FALSE, response |-> FeesResponse(q, t)]

\* if (cached) return cached; otherwise compute.
FeesOnLookup(cached, q, t) ==
    IF cached # Null
    THEN [hit |-> TRUE, response |-> cached]
    ELSE [hit |-> FALSE, response |-> FeesResponse(q, t)]

\* getLimits: the same read-through over `limits:${originChainId}:${destinationChainId}:${token}`
LimitQueries == [token : {Usdc}, destinationChainId : {"10"}, originChainId : {None}]

LimitsCacheKey(q) == <<"limits", OriginOf(q), q.destinationChainId, q.token>>

LimitsCacheKeys == {LimitsCacheKey(q) : q \in LimitQueries}

LimitsResponse ==
    [minDeposit |-> "1000000", maxDeposit |-> "1000000000000",
     maxDepositInstant |-> "100000000000",
     maxDepositShortDelay |-> "500000000000",
     recommendedDepositInstant |-> "50000000000"]

LimitsOnLookup(cached) ==
    IF cached # Null
    THEN [hit |-> TRUE, response |-> cached]
    ELSE [hit |-> FALSE, response |-> LimitsResponse]

NoQuery == [amount |-> "", inputToken |-> "", outputToken |-> "",
            destinationChainId |-> "", originChainId |-> None,
            depositor |-> None]

\* A query string as it arrives: every parameter there or not.
NoRaw == [amount |-> None, inputToken |-> None, outputToken |-> None,
          token |-> None, destinationChainId |-> None,
          originChainId |-> None, depositor |-> None]

\* The span withSpan creates around a service method: its status, how
\* often it was ended, the exception recorded on it, and what withSpan
\* itself returned or threw.
NoSpan == [status |-> "NONE", ends |-> 0, exception |-> NoErr,
           returned |-> Null, thrown |-> NoErr]
StartedSpan == [NoSpan EXCEPT !.status = "UNSET"]

NoReq == [pc |-> "idle", method |-> "none", q |-> NoQuery, raw |-> NoRaw,
          cached |-> Null, resp |-> Null, outcome |-> "none",
          error |-> NoErr, hit |-> FALSE, ver |-> 0, doneBefore |-> {},
          span |-> NoSpan]

\* Variant: span.end() at the end of the try block, no finally.
WithSpanNoFinally(req) ==
    IF req.outcome = "resolved"
    THEN [req EXCEPT !.span.status = "OK", !.span.ends = @ + 1,
                     !.span.returned = req.resp]
    ELSE [req EXCEPT !.span.status = "ERROR", !.span.exception = req.error,
                     !.span.thrown = req.error]

\* withSpan once fn(span) has settled, req holding how: the try block sets
\* OK and returns the result, the catch block sets ERROR, records the
\* exception and rethrows, the finally block ends the span.
WithSpan(req) ==
    IF req.outcome = "resolved"
    THEN [req EXCEPT !.span.status = "OK", !.span.ends = @ + 1,
                     !.span.returned = req.resp]
    ELSE [req EXCEPT !.span.status = "ERROR", !.span.exception = req.error,
                     !.span.thrown = req.error, !.span.ends = @ + 1]

(***************************************************************************)
(* The HTTP layer: the framework checks the query against the route's      *)
(* schema before it calls the handler; a failure goes to onError.          *)
(***************************************************************************)
\* The strings of the model that match ^\d+$ and ^0x[a-fA-F0-9]{40}$.
DigitStrs == {"1", "10", "999999", "1000000"}
AddressStrs == {Usdc, ZeroAddress, "0x0000000000000000000000000000000000000001"}

\* t.String({ pattern }) and t.Optional(t.String({ pattern }))
Required(opt, matching) == opt # None /\ opt[1] \in matching
Optional(opt, matching) == opt = None \/ opt[1] \in matching

ValidSuggestedFeesQuery(raw) ==
    /\ Required(raw.amount, DigitStrs)
    /\ Required(raw.inputToken, AddressStrs)
    /\ Required(raw.outputToken, AddressStrs)
    /\ Required(raw.destinationChainId, DigitStrs)
    /\ Optional(raw.originChainId, DigitStrs)
    /\ Optional(raw.depositor, AddressStrs)

ValidLimitsQuery(raw) ==
    /\ Required(raw.token, AddressStrs)
    /\ Required(raw.destinationChainId, DigitStrs)
    /\ Optional(raw.originChainId, DigitStrs)

DecodeFees(raw) ==
    [amount |-> raw.amount[1], inputToken |-> raw.inputToken[1],
     outputToken |-> raw.outputToken[1],
     destinationChainId |-> raw.destinationChainId[1],
     originChainId |-> raw.originChainId, depositor |-> raw.depositor]

DecodeLimits(raw) ==
    [token |-> raw.token[1], destinationChainId |-> raw.destinationChainId[1],
     originChainId |-> raw.originChainId]

\* Query strings sent to /api/suggested-fees: a valid one, a non-numeric
\* amount, a malformed token address, a missing required parameter.
RawFeeQueries ==
    LET ok == [NoRaw EXCEPT !.amount = <<"1000000">>, !.inputToken = <<Usdc>>,
                            !.outputToken = <<Usdc>>,
                            !.destinationChainId = <<"10">>]
    IN  {ok,
         [ok EXCEPT !.amount = <<"invalid">>],
         [ok EXCEPT !.inputToken = <<"invalid-address">>],
         [ok EXCEPT !.outputToken = None]}

\* Query strings sent to /api/limits.
RawLimitQueries ==
    LET ok == [NoRaw EXCEPT !.token = <<Usdc>>, !.destinationChainId = <<"10">>]
    IN  {ok,
         [ok EXCEPT !.token = <<"invalid-address">>],
         [ok EXCEPT !.destinationChainId = None]}

\* Variant: no onError hook; the framework's own status for a failed
\* validation.
OnErrorDefault(code) ==
    IF code = "VALIDATION" THEN 422
    ELSE IF code = "NOT_FOUND" THEN 404
    ELSE 500

\* errorHandler: the status onError sets for an error code (the errors of
\* this model are not APIErrors).
OnError(code) ==
    IF code = "VALIDATION" THEN 400
    ELSE IF code = "NOT_FOUND" THEN 404
    ELSE 500

\* The status of the HTTP response to a request.
HttpStatus(req) ==
    IF req.outcome = "invalid" THEN OnError("VALIDATION")
    ELSE IF req.outcome = "rejected" THEN OnError("UNKNOWN")
    ELSE IF req.outcome = "resolved" THEN 200
    ELSE 0

\* The cache key, the lookup and the TTL of the service method a call runs.
CacheKeyOf(req) ==
    IF req.method = "getLimits" THEN LimitsCacheKey(req.q)
    ELSE FeesCacheKey(req.q)

ServiceOnLookup(req, t) ==
    IF req.method = "getLimits" THEN LimitsOnLookup(req.cached)
    ELSE FeesOnLookup(req.cached, req.q, t)

\* Variant: both methods cache for five minutes.
ServiceTTLFiveMinutes(req) == LimitsTTL

ServiceTTL(req) == IF req.method = "getLimits" THEN LimitsTTL ELSE FeesTTL

(***************************************************************************)
(* Init: createCacheProvider(config) followed by new MemoryCacheProvider() *)
(***************************************************************************)
Init ==
    /\ config \in [provider : {"memory"}, upstash : {None},
                    defaultTTL : DefaultTTLs]
    /\ provider = CreateCacheProvider(config)
    /\ cache = EmptyMap
    /\ now = TickMs
    /\ ret = Ret("init", "", <<>>, Null, <<>>, FALSE)
    /\ hist = [k \in Keys |-> NoHist]
    /\ redis = EmptyMap
    /\ uret = Uret("init", <<>>, Resolved(Null, <<>>, FALSE), NoErr, 0)
    /\ mset = NoMset
    /\ reqs = [r \in ReqIds |-> NoReq]
    /\ wcount = [k \in FeesCacheKeys \cup LimitsCacheKeys |-> 0]
    /\ env = NoEnv
    /\ batch = NoBatch
    /\ app = NoApp

Get(key) ==
    /\ cache' = MemGetCache(cache, key, now)
    /\ ret' = Ret("get", key, <<>>, MemGetResult(cache, key, now), <<>>, FALSE)
    /\ UNCHANGED <<config, provider, now, hist>>
    /\ UNCHANGED <<upVars, feeVars, appVars>>

Set(key, value, ttlSeconds) ==
    /\ cache' = MemSetCache(cache, key, value, ttlSeconds, now)
    /\ ret' = Ret("set", key, <<>>, Null, <<>>, FALSE)
    /\ hist' = [hist EXCEPT ![key] =
                   HistSet(cache', key, value, ttlSeconds, now, "set")]
    /\ UNCHANGED <<config, provider, now>>
    /\ UNCHANGED <<upVars, feeVars, appVars>>

Delete(key) ==
    /\ cache' = MemDeleteCache(cache, key)
    /\ ret' = Ret("delete", key, <<>>, Null, <<>>, FALSE)
    /\ hist' = [hist EXCEPT ![key] =
                   [NoHist EXCEPT !.last = "delete",
                                  !.prior = PriorState(cache, key, now)]]
    /\ UNCHANGED <<config, provider, now>>
    /\ UNCHANGED <<upVars, feeVars, appVars>>

Exists(key) ==
    /\ cache' = MemGetCache(cache, key, now)
    /\ ret' = Ret("exists", key, <<>>, Null, <<>>, MemExistsResult(cache, key, now))
    /\ UNCHANGED <<config, provider, now, hist>>
    /\ UNCHANGED <<upVars, feeVars, appVars>>

Flush ==
    /\ cache' = MemFlushCache(cache)
    /\ ret' = Ret("flush", "", <<>>, Null, <<>>, FALSE)
    /\ hist' = [k \in Keys |->
                   [NoHist EXCEPT !.last = "flush",
                                  !.prior = PriorState(cache, k, now)]]
    /\ UNCHANGED <<config, provider, now>>
    /\ UNCHANGED <<upVars, feeVars, appVars>>

Mget(keys) ==
    /\ cache' = MemMgetCache(cache, keys, now)
    /\ ret' = Ret("mget", "", keys, Null, MemMgetResult(cache, keys, now), FALSE)
    /\ UNCHANGED <<config, provider, now, hist>>
    /\ UNCHANGED <<upVars, feeVars, appVars>>

Tick ==
    /\ now < MaxTicks * TickMs
    /\ now' = now + TickMs
    /\ ret' = Ret("tick", "", <<>>, Null, <<>>, FALSE)
    /\ UNCHANGED <<config, provider, cache, hist>>
    /\ UNCHANGED <<upVars, feeVars, appVars>>

Next ==
    \/ \E k \in Keys : Get(k)
    \/ \E k \in Keys, v \in Values, ttl \in OptTTLs : Set(k, v, ttl)
    \/ \E k \in Keys : Delete(k)
    \/ \E k \in Keys : Exists(k)
    \/ Flush
    \/ \E ks \in KeySeqs : Mget(ks)
    \/ Tick

Spec == Init /\ [][Next]_vars

(***************************************************************************)
(* The in-memory mset among other calls on the same provider.  mset runs   *)
(* its first set inside the call and suspends at the await; each           *)
(* continuation runs the next set, the last one returns.                   *)
(***************************************************************************)
MsetStart(entries) ==
    /\ batch.status # "running"
    /\ IF entries = <<>>
       THEN /\ batch' = [status |-> "done", entries |-> entries, i |-> 0]
            /\ ret' = Ret("mset", "", <<>>, Null, <<>>, FALSE)
            /\ UNCHANGED <<cache, hist>>
       ELSE /\ cache' = MemMsetApply(cache, entries, 1, now)
            /\ hist' = [hist EXCEPT ![entries[1].key] =
                           HistSet(cache', entries[1].key, entries[1].value,
                                   entries[1].ttlSeconds, now, "mset")]
            /\ batch' = [status |-> "running", entries |-> entries, i |-> 1]
            /\ ret' = Ret("msetSet", entries[1].key, <<>>, Null, <<>>, FALSE)
    /\ UNCHANGED <<config, provider, now>>
    /\ UNCHANGED <<upVars, feeVars, env, app>>

MsetStep ==
    /\ batch.status = "running"
    /\ IF batch.i < Len(batch.entries)
       THEN LET j == batch.i + 1
                e == batch.entries[j]
            IN  /\ cache' = MemMsetApply(cache, batch.entries, j, now)
                /\ hist' = [hist EXCEPT ![e.key] =
                               HistSet(cache', e.key, e.value, e.ttlSeconds,
                                       now, "mset")]
                /\ batch' = [batch EXCEPT !.i = j]
                /\ ret' = Ret("msetSet", e.key, <<>>, Null, <<>>, FALSE)
       ELSE /\ batch' = [batch EXCEPT !.status = "done"]
            /\ ret' = Ret("mset", "", <<>>, Null, <<>>, FALSE)
            /\ UNCHANGED <<cache, hist>>
    /\ UNCHANGED <<config, provider, now>>
    /\ UNCHANGED <<upVars, feeVars, env, app>>

NextBatch ==
    \/ \E es \in MemEntrySeqs : MsetStart(es)
    \/ MsetStep
    \/ \E k \in Keys : Get(k)
    \/ \E k \in Keys : Delete(k)
    \/ \E k \in Keys : Exists(k)
    \/ Flush
    \/ Tick

InitBatch == Init /\ config.defaultTTL = None

SpecBatch == InitBatch /\ [][NextBatch]_vars

(***************************************************************************)
(* The Upstash provider over a remote store whose calls may fail.          *)
(***************************************************************************)
InitUpstash ==
    /\ config \in [provider : {"upstash"}, upstash : {UpstashCredentials},
                    defaultTTL : DefaultTTLs]
    /\ provider = CreateCacheProvider(config)
    /\ cache = EmptyMap
    /\ now = TickMs
    /\ ret = Ret("init", "", <<>>, Null, <<>>, FALSE)
    /\ hist = [k \in Keys |-> NoHist]
    /\ redis = EmptyMap
    /\ uret = Uret("init", <<>>, Resolved(Null, <<>>, FALSE), NoErr, 0)
    /\ mset = NoMset
    /\ reqs = [r \in ReqIds |-> NoReq]
    /\ wcount = [k \in FeesCacheKeys \cup LimitsCacheKeys |-> 0]
    /\ env = NoEnv
    /\ batch = NoBatch
    /\ app = NoApp

UpGet(key, err) ==
    /\ uret' = Uret("get", <<key>>, UpGetOutcome(redis, key, err), err, 1)
    /\ UNCHANGED <<redis, mset>>
    /\ UNCHANGED <<memVars, feeVars, appVars>>

UpSet(key, value, ttlSeconds, err) ==
    /\ redis' = IF err = NoErr
                THEN RedisApply(redis, UpSetCommand(key, value, ttlSeconds,
                                                    provider.defaultTTL))
                ELSE redis
    /\ uret' = Uret("set", <<key>>, UpSetOutcome(err), err, 1)
    /\ UNCHANGED mset
    /\ UNCHANGED <<memVars, feeVars, appVars>>

UpDelete(key, err) ==
    /\ redis' = IF err = NoErr THEN MapDelete(redis, key) ELSE redis
    /\ uret' = Uret("delete", <<key>>, UpDeleteOutcome(err), err, 1)
    /\ UNCHANGED mset
    /\ UNCHANGED <<memVars, feeVars, appVars>>

UpExists(key, err) ==
    /\ uret' = Uret("exists", <<key>>, UpExistsOutcome(redis, key, err), err, 1)
    /\ UNCHANGED <<redis, mset>>
    /\ UNCHANGED <<memVars, feeVars, appVars>>

UpFlush(err) ==
    /\ redis' = IF err = NoErr THEN EmptyMap ELSE redis
    /\ uret' = Uret("flush", <<>>, UpFlushOutcome(err), err, 1)
    /\ UNCHANGED mset
    /\ UNCHANGED <<memVars, feeVars, appVars>>

\* mget sends nothing for an empty key list.
UpMget(keys, err) ==
    /\ keys = <<>> => err = NoErr
    /\ uret' = Uret("mget", keys, UpMgetOutcome(redis, keys, err), err,
                    IF keys = <<>> THEN 0 ELSE 1)
    /\ UNCHANGED <<redis, mset>>
    /\ UNCHANGED <<memVars, feeVars, appVars>>

\* mset is called: every entry's set is started and has sent its command.
UpMsetStart(entries) ==
    /\ \A i \in 1..Len(mset.sets) : mset.sets[i] # "inflight"
    /\ LET sets == [i \in 1..Len(entries) |-> "inflight"]
           status == UpMsetStatus(sets)
       IN  /\ mset' = [status |-> status, error |-> NoErr, n |-> Len(entries),
                       cmds |-> UpMsetCommands(entries, provider.defaultTTL),
                       sets |-> sets]
           /\ uret' = IF status = "resolved"
                      THEN Uret("mset", <<>>, Resolved(Null, <<>>, FALSE), NoErr, 0)
                      ELSE Uret("msetStart", <<>>, Resolved(Null, <<>>, FALSE),
                                NoErr, Len(entries))
    /\ UNCHANGED redis
    /\ UNCHANGED <<memVars, feeVars, appVars>>

\* The store answers the i-th set of the mset in progress.
UpMsetSetSettles(i, err) ==
    /\ i \in 1..Len(mset.sets)
    /\ mset.sets[i] = "inflight"
    /\ redis' = IF err = NoErr THEN RedisApply(redis, mset.cmds[i]) ELSE redis
    /\ LET sets == [mset.sets EXCEPT
                       ![i] = IF UpSetOutcome(err).kind = "resolved"
                              THEN "ok" ELSE "failed"]
           status == IF mset.status = "pending" THEN UpMsetStatus(sets)
                     ELSE mset.status
           error == IF mset.status = "pending" /\ status = "rejected"
                    THEN UpSetOutcome(err).error ELSE mset.error
       IN  /\ mset' = [mset EXCEPT !.sets = sets, !.status = status,
                                   !.error = error]
           /\ uret' = IF mset.status = "pending" /\ status = "rejected"
                      THEN Uret("mset", <<>>, Rejected(error), err, Len(sets))
                      ELSE IF mset.status = "pending" /\ status = "resolved"
                      THEN Uret("mset", <<>>, Resolved(Null, <<>>, FALSE), NoErr,
                                Len(sets))
                      ELSE Uret("setSettled", <<>>, UpSetOutcome(err), err, 1)
    /\ UNCHANGED <<memVars, feeVars, appVars>>

NextUpstash ==
    \/ \E k \in Keys, e \in BackendErrs : UpGet(k, e)
    \/ \E k \in Keys, v \in UpValues, ttl \in UpTTLs, e \in BackendErrs :
           UpSet(k, v, ttl, e)
    \/ \E k \in Keys, e \in BackendErrs : UpDelete(k, e)
    \/ \E k \in Keys, e \in BackendErrs : UpExists(k, e)
    \/ \E e \in BackendErrs : UpFlush(e)
    \/ \E ks \in KeySeqs, e \in BackendErrs : UpMget(ks, e)
    \/ \E es \in UpEntrySeqs : UpMsetStart(es)
    \/ \E i \in 1..MaxBatch + 1, e \in BackendErrs : UpMsetSetSettles(i, e)

SpecUpstash == InitUpstash /\ [][NextUpstash]_vars

(***************************************************************************)
(* FeesService over the provider the factory built.  A call suspends at    *)
(* await this.cache.get and at await this.cache.set; other calls run in    *)
(* between.                                                                *)
(***************************************************************************)
InitFees ==
    /\ config \in {c \in [provider : {"memory", "upstash"},
                             upstash : {None, UpstashCredentials},
                             defaultTTL : {None}] :
                        c.upstash # None <=> c.provider = "upstash"}
    /\ provider = CreateCacheProvider(config)
    /\ cache = EmptyMap
    /\ now = FeeTickMs
    /\ ret = Ret("init", "", <<>>, Null, <<>>, FALSE)
    /\ hist = [k \in Keys |-> NoHist]
    /\ redis = EmptyMap
    /\ uret = Uret("init", <<>>, Resolved(Null, <<>>, FALSE), NoErr, 0)
    /\ mset = NoMset
    /\ reqs = [r \in ReqIds |-> NoReq]
    /\ wcount = [k \in FeesCacheKeys \cup LimitsCacheKeys |-> 0]
    /\ env = NoEnv
    /\ batch = NoBatch
    /\ app = NoApp

\* A service method is called with query q: the key is built and cache.get
\* is called.  The in-memory get does its lookup inside the call; the
\* Upstash get sends its command and suspends.
ServiceStarted(method, q) ==
    LET key == CacheKeyOf([method |-> method, q |-> q])
        done == {x \in ReqIds : reqs[x].pc = "done"}
    IN  IF provider.kind = "memory"
        THEN [NoReq EXCEPT !.pc = "gotten", !.method = method, !.q = q,
                           !.cached = MemGetResult(cache, key, now),
                           !.ver = wcount[key], !.doneBefore = done,
                           !.span = StartedSpan]
        ELSE [NoReq EXCEPT !.pc = "getting", !.method = method, !.q = q,
                           !.doneBefore = done, !.span = StartedSpan]

ServiceGetCache(method, q) ==
    IF provider.kind = "memory"
    THEN MemGetCache(cache, CacheKeyOf([method |-> method, q |-> q]), now)
    ELSE cache

\* getSuggestedFees(q) is called.
FeesStart(r, q) ==
    /\ reqs[r].pc = "idle"
    /\ \A x \in ReqIds : x < r => reqs[x].pc # "idle"
    /\ cache' = ServiceGetCache("getSuggestedFees", q)
    /\ reqs' = [reqs EXCEPT ![r] = ServiceStarted("getSuggestedFees", q)]
    /\ UNCHANGED <<config, provider, now, ret, hist, wcount>>
    /\ UNCHANGED <<upVars, appVars>>

\* getLimits(q) is called.
LimitsStart(r, q) ==
    /\ reqs[r].pc = "idle"
    /\ \A x \in ReqIds : x < r => reqs[x].pc # "idle"
    /\ cache' = ServiceGetCache("getLimits", q)
    /\ reqs' = [reqs EXCEPT ![r] = ServiceStarted("getLimits", q)]
    /\ UNCHANGED <<config, provider, now, ret, hist, wcount>>
    /\ UNCHANGED <<upVars, appVars>>

\* The remote store answers the get, or the call fails.
FeesGetReply(r, err) ==
    /\ reqs[r].pc = "getting"
    /\ LET key == CacheKeyOf(reqs[r])
       IN  reqs' = [reqs EXCEPT ![r].pc = "gotten",
                                ![r].cached = UpGetOutcome(redis, key, err).value,
                                ![r].ver = wcount[key]]
    /\ UNCHANGED <<memVars, upVars, wcount, appVars>>

\* The continuation after await this.cache.get: return the cached response,
\* or compute one and call cache.set(cacheKey, response, 60) (300 in
\* getLimits).
FeesAfterGet(r) ==
    /\ reqs[r].pc = "gotten"
    /\ LET key == CacheKeyOf(reqs[r])
           d == ServiceOnLookup(reqs[r], now)
       IN  IF d.hit
           THEN /\ reqs' = [reqs EXCEPT ![r] =
                               WithSpan([@ EXCEPT !.pc = "done",
                                                  !.hit = TRUE,
                                                  !.cached = Null,
                                                  !.resp = d.response,
                                                  !.outcome = "resolved"])]
                /\ UNCHANGED <<cache, wcount>>
           ELSE IF provider.kind = "memory"
           THEN /\ cache' = MemSetCache(cache, key, d.response,
                                        Some(ServiceTTL(reqs[r])), now)
                /\ wcount' = [wcount EXCEPT ![key] = @ + 1]
                /\ reqs' = [reqs EXCEPT ![r].pc = "setDone",
                                        ![r].resp = d.response,
                                        ![r].ver = wcount[key] + 1]
           ELSE /\ reqs' = [reqs EXCEPT ![r].pc = "setting",
                                        ![r].resp = d.response]
                /\ UNCHANGED <<cache, wcount>>
    /\ UNCHANGED <<config, provider, now, ret, hist>>
    /\ UNCHANGED <<upVars, appVars>>

\* The continuation after await this.cache.set of the in-memory provider.
FeesAfterSet(r) ==
    /\ reqs[r].pc = "setDone"
    /\ reqs' = [reqs EXCEPT ![r] =
                   WithSpan([@ EXCEPT !.pc = "done", !.outcome = "resolved"])]
    /\ UNCHANGED <<memVars, upVars, wcount, appVars>>

\* The remote store answers the set, or the call fails and set rethrows:
\* nothing in getSuggestedFees or withSpan catches it.
FeesSetReply(r, err) ==
    /\ reqs[r].pc = "setting"
    /\ LET key == CacheKeyOf(reqs[r])
           o == UpSetOutcome(err)
       IN  IF o.kind = "resolved"
           THEN /\ redis' = RedisApply(redis,
                                UpSetCommand(key, reqs[r].resp,
                                             Some(ServiceTTL(reqs[r])),
                                             provider.defaultTTL))
                /\ wcount' = [wcount EXCEPT ![key] = @ + 1]
                /\ reqs' = [reqs EXCEPT ![r] =
                               WithSpan([@ EXCEPT !.pc = "done",
                                                  !.outcome = "resolved",
                                                  !.ver = wcount[key] + 1])]
           ELSE /\ reqs' = [reqs EXCEPT ![r] =
                               WithSpan([@ EXCEPT !.pc = "done",
                                                  !.outcome = "rejected",
                                                  !.error = o.error,
                                                  !.resp = Null])]
                /\ UNCHANGED <<redis, wcount>>
    /\ UNCHANGED <<memVars, uret, mset, appVars>>

\* The remote store drops an entry written with setex once its TTL is over.
RedisEvict(key) ==
    /\ provider.kind = "upstash"
    /\ key \in DOMAIN redis
    /\ redis[key].ttl # None
    /\ redis' = MapDelete(redis, key)
    /\ UNCHANGED <<memVars, uret, mset, feeVars, appVars>>

FeesTick ==
    /\ now < MaxFeeTicks * FeeTickMs
    /\ now' = now + FeeTickMs
    /\ UNCHANGED <<config, provider, cache, ret, hist>>
    /\ UNCHANGED <<upVars, feeVars, appVars>>

\* The clock moves on by the lifetime of a limits entry.
LimitsTick ==
    /\ now < MaxFeeTicks * FeeTickMs
    /\ now' = now + LimitsTTL * MsPerSec
    /\ UNCHANGED <<config, provider, cache, ret, hist>>
    /\ UNCHANGED <<upVars, feeVars, appVars>>

NextFees ==
    \/ \E r \in ReqIds, q \in Queries : FeesStart(r, q)
    \/ \E r \in ReqIds, e \in FeeErrs : FeesGetReply(r, e)
    \/ \E r \in ReqIds : FeesAfterGet(r)
    \/ \E r \in ReqIds : FeesAfterSet(r)
    \/ \E r \in ReqIds, e \in FeeErrs : FeesSetReply(r, e)
    \/ \E k \in FeesCacheKeys : RedisEvict(k)
    \/ FeesTick

SpecFees == InitFees /\ [][NextFees]_vars

(***************************************************************************)
(* The application: src/src/index.ts is loaded (its imports first, then    *)
(* its body), then it answers HTTP requests.                               *)
(***************************************************************************)
InitApi ==
    /\ config = NoConfig
    /\ provider = NoProvider
    /\ cache = EmptyMap
    /\ now = FeeTickMs
    /\ ret = Ret("init", "", <<>>, Null, <<>>, FALSE)
    /\ hist = [k \in Keys |-> NoHist]
    /\ redis = EmptyMap
    /\ uret = Uret("init", <<>>, Resolved(Null, <<>>, FALSE), NoErr, 0)
    /\ mset = NoMset
    /\ reqs = [r \in ReqIds |-> NoReq]
    /\ wcount = [k \in FeesCacheKeys \cup LimitsCacheKeys |-> 0]
    /\ env = NoEnv
    /\ batch = NoBatch
    /\ app = NoApp

\* index.ts imports modules/fees/index.ts, which imports service.ts, which
\* imports @across-protocol/sdk statically: the SDK is loaded, or fails to
\* load, before any module body runs.  Then index.ts builds the cache
\* provider from the environment and the application.
AppStart(sdkOk) ==
    /\ app.state = "off"
    /\ IF sdkOk
       THEN /\ config' = ConfigFromEnv(env)
            /\ provider' = CreateCacheProvider(config')
            /\ app' = [app EXCEPT !.sdk = "loaded",
                                  !.state = IF provider'.kind = "thrown"
                                            THEN "crashed" ELSE "running"]
       ELSE /\ app' = [app EXCEPT !.sdk = "failed", !.state = "crashed"]
            /\ UNCHANGED <<config, provider>>
    /\ UNCHANGED <<cache, now, ret, hist, env, batch>>
    /\ UNCHANGED <<upVars, feeVars>>

\* The framework answers a request whose query fails the schema through
\* onError; the handler is not called.
HttpReject(r, raw) ==
    /\ reqs[r].pc = "idle"
    /\ \A x \in ReqIds : x < r => reqs[x].pc # "idle"
    /\ reqs' = [reqs EXCEPT ![r] =
                   [NoReq EXCEPT !.pc = "done", !.outcome = "invalid",
                                 !.raw = raw]]
    /\ UNCHANGED <<memVars, upVars, wcount, appVars>>

\* GET /api/suggested-fees
HttpSuggestedFees(r, raw) ==
    /\ app.state = "running"
    /\ IF ValidSuggestedFeesQuery(raw) THEN FeesStart(r, DecodeFees(raw))
       ELSE HttpReject(r, raw)

\* GET /api/limits
HttpLimits(r, raw) ==
    /\ app.state = "running"
    /\ IF ValidLimitsQuery(raw) THEN LimitsStart(r, DecodeLimits(raw))
       ELSE HttpReject(r, raw)

\* GET /health
HttpHealth ==
    /\ app.state = "running"
    /\ app' = [app EXCEPT !.served = @ \cup {"/health"}]
    /\ UNCHANGED <<memVars, upVars, feeVars, env, batch>>

\* GET /api/sdk-validation: loadSDK and loadContracts start the import on
\* their first call and keep the promise, settled either way, for every
\* later call.  loadContracts is not called when loadSDK rejects.
\* sdkImport, contractsImport: what the import settles with if it is started.
HttpSdkValidation(sdkImport, contractsImport) ==
    /\ app.state = "running"
    /\ LET sdk == IF app.sdkPromise = "null" THEN sdkImport
                  ELSE app.sdkPromise
           contracts == IF sdk = "rejected" THEN app.contractsPromise
                        ELSE IF app.contractsPromise = "null"
                        THEN contractsImport
                        ELSE app.contractsPromise
       IN  app' = [app EXCEPT
                     !.sdkPromise = sdk,
                     !.contractsPromise = contracts,
                     !.validation = ValidateSDKCompatibility(sdk, contracts),
                     !.served = @ \cup {"/api/sdk-validation"}]
    /\ UNCHANGED <<memVars, upVars, feeVars, env, batch>>

\* GET /ready is called: cache.set("_ready_check", "ok", 10).  The in-memory
\* set writes inside the call; the Upstash set sends its command and
\* suspends.
ReadyStart ==
    /\ app.state = "running"
    /\ app.ready.pc \in {"idle", "done"}
    /\ IF provider.kind = "memory"
       THEN /\ cache' = MemSetCache(cache, ReadyKey, ReadyOk, Some(ReadyTTL), now)
            /\ app' = [app EXCEPT !.ready = [NoReady EXCEPT !.pc = "setDone"]]
       ELSE /\ app' = [app EXCEPT !.ready = [NoReady EXCEPT !.pc = "setting"]]
            /\ UNCHANGED cache
    /\ UNCHANGED <<config, provider, now, ret, hist, env, batch>>
    /\ UNCHANGED <<upVars, feeVars>>

\* The remote store answers the set and the handler calls cache.get, or the
\* set fails, the provider rethrows and the handler's catch block answers.
ReadySetReply(err) ==
    /\ app.ready.pc = "setting"
    /\ LET o == UpSetOutcome(err)
       IN  IF o.kind = "resolved"
           THEN /\ redis' = RedisApply(redis,
                                UpSetCommand(ReadyKey, ReadyOk, Some(ReadyTTL),
                                             provider.defaultTTL))
                /\ app' = [app EXCEPT !.ready.pc = "getting"]
           ELSE /\ app' = [app EXCEPT !.ready = ReadyFailure(o.error)]
                /\ UNCHANGED redis
    /\ UNCHANGED <<memVars, uret, mset, feeVars, env, batch>>

\* The continuation after await cache.set of the in-memory provider: the
\* handler calls cache.get, which does its lookup inside the call.
ReadyAfterSet ==
    /\ app.ready.pc = "setDone"
    /\ cache' = MemGetCache(cache, ReadyKey, now)
    /\ app' = [app EXCEPT !.ready.pc = "gotten",
                          !.ready.value = MemGetResult(cache, ReadyKey, now)]
    /\ UNCHANGED <<config, provider, now, ret, hist, env, batch>>
    /\ UNCHANGED <<upVars, feeVars>>

\* The remote store answers the get, or the get fails and the provider
\* returns null.
ReadyGetReply(err) ==
    /\ app.ready.pc = "getting"
    /\ app' = [app EXCEPT !.ready.pc = "gotten",
                          !.ready.value = UpGetOutcome(redis, ReadyKey, err).value]
    /\ UNCHANGED <<memVars, upVars, feeVars, env, batch>>

\* The continuation after await cache.get: the handler answers.
ReadyAfterGet ==
    /\ app.ready.pc = "gotten"
    /\ app' = [app EXCEPT !.ready = ReadyResponse(app.ready.value)]
    /\ UNCHANGED <<memVars, upVars, feeVars, env, batch>>

NextApi ==
    \/ \E ok \in BOOLEAN : AppStart(ok)
    \/ \E r \in ReqIds, raw \in RawFeeQueries : HttpSuggestedFees(r, raw)
    \/ \E r \in ReqIds, raw \in RawLimitQueries : HttpLimits(r, raw)
    \/ \E r \in ReqIds : FeesAfterGet(r)
    \/ \E r \in ReqIds : FeesAfterSet(r)
    \/ FeesTick
    \/ LimitsTick

SpecApi == InitApi /\ [][NextApi]_vars

(***************************************************************************)
(* The application's operational endpoints, /health, /ready and            *)
(* /api/sdk-validation, over either provider.                              *)
(***************************************************************************)
\* Environments the application is started in: nothing set (the in-memory
\* provider), Upstash with its credentials, Upstash without a token.
OpsEnvs ==
    {NoEnv,
     [x \in {"CACHE_PROVIDER", "UPSTASH_REDIS_REST_URL",
              "UPSTASH_REDIS_REST_TOKEN"} |->
         CASE x = "CACHE_PROVIDER" -> "upstash"
           [] x = "UPSTASH_REDIS_REST_URL" -> "u"
           [] x = "UPSTASH_REDIS_REST_TOKEN" -> "t"],
     [x \in {"CACHE_PROVIDER", "UPSTASH_REDIS_REST_URL"} |->
         CASE x = "CACHE_PROVIDER" -> "upstash"
           [] x = "UPSTASH_REDIS_REST_URL" -> "u"]}

InitOps ==
    /\ config = NoConfig
    /\ provider = NoProvider
    /\ cache = EmptyMap
    /\ now = FeeTickMs
    /\ ret = Ret("init", "", <<>>, Null, <<>>, FALSE)
    /\ hist = [k \in Keys |-> NoHist]
    /\ redis = EmptyMap
    /\ uret = Uret("init", <<>>, Resolved(Null, <<>>, FALSE), NoErr, 0)
    /\ mset = NoMset
    /\ reqs = [r \in ReqIds |-> NoReq]
    /\ wcount = [k \in FeesCacheKeys \cup LimitsCacheKeys |-> 0]
    /\ env \in OpsEnvs
    /\ batch = NoBatch
    /\ app = NoApp

NextOps ==
    \/ \E ok \in BOOLEAN : AppStart(ok)
    \/ HttpHealth
    \/ \E sdkImport \in SdkModules \cup {"rejected"},
          contractsImport \in ContractsModules \cup {"rejected"} :
            HttpSdkValidation(sdkImport, contractsImport)
    \/ ReadyStart
    \/ \E e \in FeeErrs : ReadySetReply(e)
    \/ ReadyAfterSet
    \/ \E e \in FeeErrs : ReadyGetReply(e)
    \/ ReadyAfterGet
    \/ FeesTick

SpecOps == InitOps /\ [][NextOps]_vars

(***************************************************************************)
(* The factory: createCacheProviderFromEnv() as src/src/index.ts calls it  *)
(* at module load, or createCacheProvider(config) called directly, and     *)
(* then operations on the provider object, if there is one.                *)
(***************************************************************************)
InitFactory ==
    /\ config = NoConfig
    /\ provider = NoProvider
    /\ cache = EmptyMap
    /\ now = TickMs
    /\ ret = Ret("init", "", <<>>, Null, <<>>, FALSE)
    /\ hist = [k \in Keys |-> NoHist]
    /\ redis = EmptyMap
    /\ uret = Uret("init", <<>>, Resolved(Null, <<>>, FALSE), NoErr, 0)
    /\ mset = NoMset
    /\ reqs = [r \in ReqIds |-> NoReq]
    /\ wcount = [k \in FeesCacheKeys \cup LimitsCacheKeys |-> 0]
    /\ env \in Envs
    /\ batch = NoBatch
    /\ app = NoApp

CreateFromEnv ==
    /\ provider.kind = "none"
    /\ config' = ConfigFromEnv(env)
    /\ provider' = CreateCacheProvider(config')
    /\ ret' = Ret("createCacheProviderFromEnv", "", <<>>, Null, <<>>, FALSE)
    /\ UNCHANGED <<cache, now, hist>>
    /\ UNCHANGED <<upVars, feeVars, appVars>>

Create(cfg) ==
    /\ provider.kind = "none"
    /\ config' = cfg
    /\ provider' = CreateCacheProvider(cfg)
    /\ ret' = Ret("createCacheProvider", "", <<>>, Null, <<>>, FALSE)
    /\ UNCHANGED <<cache, now, hist>>
    /\ UNCHANGED <<upVars, feeVars, appVars>>

\* A method can only be called on a provider object the factory returned.
NextFactory ==
    \/ CreateFromEnv
    \/ \E c \in Configs : Create(c)
    \/ \E k \in Keys : provider.kind = "memory" /\ Get(k)
    \/ \E k \in Keys, v \in UpValues :
           provider.kind = "memory" /\ Set(k, v, None)
    \/ \E k \in Keys : provider.kind = "upstash" /\ UpGet(k, NoErr)
    \/ \E k \in Keys, v \in UpValues :
           provider.kind = "upstash" /\ UpSet(k, v, None, NoErr)

SpecFactory == InitFactory /\ [][NextFactory]_vars

(***************************************************************************)
(* Claims about the factory.                                               *)
(***************************************************************************)
\* The config names the remote provider without a url or without a token, or
\* names a provider that is neither 'memory' nor 'upstash'.
Misconfigured(cfg) ==
    \/ /\ cfg.provider = "upstash"
       /\ \/ cfg.upstash = None
          \/ cfg.upstash[1].url \in {None, <<"">>}
          \/ cfg.upstash[1].token \in {None, <<"">>}
    \/ cfg.provider \notin {"memory", "upstash"}

\* C11: createCacheProvider throws and returns no provider when the tag is
\* 'upstash' and the url or the token is missing, and when the tag is neither
\* 'memory' nor 'upstash' ('redis' included); no provider operation is ever
\* run on an incompletely configured provider.
C11_MisconfigurationFatalAtConstruction ==
    /\ (provider.kind # "none" /\ Misconfigured(config)) =>
           provider.kind = "thrown"
    /\ (provider.kind # "none" /\ ~Misconfigured(config)) =>
           provider.kind = config.provider
    /\ provider.kind = "thrown" =>
           /\ ret.op \in {"createCacheProvider", "createCacheProviderFromEnv"}
           /\ uret.op = "init"
           /\ cache = EmptyMap /\ redis = EmptyMap
    /\ (ret.op \in {"get", "set"} \/ uret.op # "init") => ~Misconfigured(config)

C11_Witness ==
    /\ provider.kind = "thrown"
    /\ config.provider = "upstash"
    /\ config.upstash # None
    /\ config.upstash[1].url = <<"u">>
    /\ config.upstash[1].token = None

\* C12: createCacheProviderFromEnv builds its config from the environment
\* and hands it to createCacheProvider: the tag is 'memory' when
\* CACHE_PROVIDER is unset, defaultTTL is 300 when CACHE_DEFAULT_TTL is unset,
\* and the upstash credentials block is there if and only if the tag is
\* 'upstash'.
C12_ConfigFromEnvironment ==
    ret.op = "createCacheProviderFromEnv" =>
        /\ "CACHE_PROVIDER" \notin DOMAIN env => config.provider = "memory"
        /\ ("CACHE_PROVIDER" \in DOMAIN env /\ env["CACHE_PROVIDER"] # "") =>
               config.provider = env["CACHE_PROVIDER"]
        /\ "CACHE_DEFAULT_TTL" \notin DOMAIN env => config.defaultTTL = <<300>>
        /\ config.upstash # None <=> config.provider = "upstash"
        /\ config.provider = "upstash" =>
               /\ config.upstash[1].url = EnvGet(env, "UPSTASH_REDIS_REST_URL")
               /\ config.upstash[1].token = EnvGet(env, "UPSTASH_REDIS_REST_TOKEN")
        /\ provider = CreateCacheProvider(config)

C12_Witness ==
    /\ ret.op = "createCacheProviderFromEnv"
    /\ "CACHE_PROVIDER" \notin DOMAIN env
    /\ "CACHE_DEFAULT_TTL" \notin DOMAIN env
    /\ "UPSTASH_REDIS_REST_URL" \in DOMAIN env
    /\ config.provider = "memory"
    /\ config.defaultTTL = <<300>>
    /\ config.upstash = None
    /\ provider.kind = "memory"

(***************************************************************************)
(* Claims about the in-memory provider.                                    *)
(***************************************************************************)
\* The deadline the caller asked for: setTime + t*1000 for a set with t.
AskedDeadline(h) == h.setTime + h.ttl[1] * MsPerSec

\* The entry written by the most recent set has an expiresAt that has passed.
StoredExpired(h) == h.expiresAt # None /\ now > h.expiresAt[1]

\* C1: after set(k, v) with or without a TTL, with no set/delete on k and no
\* flush since, and before the deadline asked for has passed, get(k) returns
\* exactly v.
C1_GetReturnsStoredValue ==
    \A k \in Keys :
        (/\ ret.op = "get" /\ ret.key = k
         /\ hist[k].live
         /\ (hist[k].ttl # None => now <= AskedDeadline(hist[k])))
        => ret.result = hist[k].value

C1_Witness ==
    /\ ret.op = "get"
    /\ hist[ret.key].live
    /\ hist[ret.key].ttl # None
    /\ hist[ret.key].setTime < now
    /\ ret.result = hist[ret.key].value

\* C2: an entry written by set(k, v, t) is returned by get(k) while
\* now <= setTime + t*1000, and once now > expiresAt no get(k) and no mget
\* holding k returns it, whether or not the entry is still in the map.
C2_ExpiredNeverReturned ==
    /\ \A k \in Keys :
          (/\ ret.op = "get" /\ ret.key = k
           /\ hist[k].live /\ hist[k].ttl # None
           /\ now <= AskedDeadline(hist[k]))
          => ret.result = hist[k].value
    /\ \A k \in Keys :
          (/\ ret.op = "get" /\ ret.key = k
           /\ hist[k].live
           /\ \/ StoredExpired(hist[k])
              \/ (hist[k].ttl # None /\ hist[k].ttl[1] >= 1
                  /\ now > AskedDeadline(hist[k])))
          => ret.result = Null
    /\ ret.op = "mget" =>
          \A i \in 1..Len(ret.keys) :
              (/\ hist[ret.keys[i]].live
               /\ \/ StoredExpired(hist[ret.keys[i]])
                  \/ (hist[ret.keys[i]].ttl # None /\ hist[ret.keys[i]].ttl[1] >= 1
                      /\ now > AskedDeadline(hist[ret.keys[i]])))
              => ret.results[i] = Null

C2_Witness ==
    /\ ret.op = "get"
    /\ hist[ret.key].live
    /\ StoredExpired(hist[ret.key])
    /\ ret.result = Null

\* C3: exists(k) returns true if and only if some set(k, ...) occurred, no
\* delete(k) or flush() came after the most recent one, and the entry it wrote
\* has not expired (not now > expiresAt).
C3_ExistsIffLiveSet ==
    ret.op = "exists" =>
        (ret.flag <=> (hist[ret.key].live /\ ~StoredExpired(hist[ret.key])))

C3_Witness ==
    /\ ret.op = "exists"
    /\ hist[ret.key].live
    /\ StoredExpired(hist[ret.key])
    /\ ret.flag = FALSE

\* C7: a set without ttlSeconds on a provider the factory built from a config
\* with defaultTTL = d stores an entry that expires d seconds later, and the
\* entry never expires only when neither an explicit TTL nor a default is
\* present.
C7_DefaultTTLApplied ==
    \A k \in Keys :
        (hist[k].live /\ hist[k].ttl = None) =>
            IF config.defaultTTL # None
            THEN hist[k].expiresAt =
                     Some(hist[k].setTime + config.defaultTTL[1] * MsPerSec)
            ELSE hist[k].expiresAt = None

\* What get(k) is due to return by the history of k: the value of the most
\* recent set, unless a delete or flush came after it or it has expired.
DueValue(k) ==
    IF hist[k].live /\ ~StoredExpired(hist[k]) THEN hist[k].value ELSE Null

\* C13: after delete(k), get(k) returns null whatever k was before the delete
\* (never set, live, expired but not yet purged), until the next set(k, ...).
C13_DeleteThenGetNull ==
    \A k \in Keys :
        (ret.op = "get" /\ ret.key = k /\ hist[k].last = "delete")
        => ret.result = Null

C13_Witness ==
    /\ ret.op = "get"
    /\ hist[ret.key].last = "delete"
    /\ hist[ret.key].prior = "live"
    /\ ret.result = Null
    /\ \E k \in Keys : hist[k].last = "delete" /\ hist[k].prior = "expired"

\* C14: delete(k) on a key that is not in the store returns normally and
\* leaves the whole store unchanged; after delete(k) the key is not in the
\* store, so a second delete(k) leaves the store as the first one left it.
C14_DeleteIdempotent ==
    /\ [](ret.op = "delete" => ret.key \notin DOMAIN cache)
    /\ [][\A k \in Keys :
             (Delete(k) /\ k \notin DOMAIN cache) =>
                 (cache' = cache /\ ret'.op = "delete")]_vars
    /\ [][(ret.op = "delete" /\ Delete(ret.key)) => cache' = cache]_vars

C14_Witness ==
    /\ ret.op = "delete"
    /\ hist[ret.key].prior = "absent"
    /\ DOMAIN cache # {}

\* C15: immediately after flush the map has no entries, and for every key
\* get returns null and exists returns false until that key is set again.
C15_FlushEmptiesStore ==
    /\ ret.op = "flush" => DOMAIN cache = {}
    /\ \A k \in Keys :
          hist[k].last = "flush" =>
              /\ (ret.op = "get" /\ ret.key = k) => ret.result = Null
              /\ (ret.op = "exists" /\ ret.key = k) => ret.flag = FALSE
              /\ k \notin DOMAIN cache

C15_Witness ==
    /\ ret.op = "get"
    /\ hist[ret.key].last = "flush"
    /\ hist[ret.key].prior = "live"
    /\ ret.result = Null
    /\ \E k \in Keys : k # ret.key /\ hist[k].last = "set"

\* C16: mget(keys) returns as many results as keys, the i-th being what
\* get(keys[i]) returns (the live value, or null for an unset, deleted or
\* expired key), in input order, a repeated key resolved at each position.
C16_MgetMirrorsGet ==
    ret.op = "mget" =>
        /\ Len(ret.results) = Len(ret.keys)
        /\ \A i \in 1..Len(ret.keys) : ret.results[i] = DueValue(ret.keys[i])

C16_Witness ==
    /\ ret.op = "mget"
    /\ Len(ret.keys) = 2
    /\ ret.keys[1] = ret.keys[2]
    /\ ret.results[1] # Null
    /\ ret.results[2] = ret.results[1]

\* The last entry of the batch that names key k.
LastEntryFor(entries, k) ==
    entries[CHOOSE i \in 1..Len(entries) :
                /\ entries[i].key = k
                /\ \A j \in (i + 1)..Len(entries) : entries[j].key # k]

BatchKeys == {batch.entries[i].key : i \in 1..Len(batch.entries)}

\* C17: once mset has completed, for every key of the batch that no set or
\* delete has touched since the batch wrote it, the entry holds the value and
\* the TTL of the last batch entry with that key (no expiry when that entry
\* has no ttlSeconds, whatever the other entries have), and get(key) returns
\* that value until the entry expires.
C17_MsetAppliesEachEntry ==
    \A k \in BatchKeys :
        (batch.status = "done" /\ hist[k].last = "mset") =>
            LET e == LastEntryFor(batch.entries, k)
            IN  /\ hist[k].value = e.value
                /\ hist[k].ttl = e.ttlSeconds
                /\ hist[k].expiresAt =
                       IF e.ttlSeconds = None THEN None
                       ELSE <<hist[k].setTime + e.ttlSeconds[1] * 1000>>
                /\ (ret.op = "get" /\ ret.key = k) =>
                       ret.result = IF StoredExpired(hist[k]) THEN Null
                                    ELSE e.value

C17_Witness ==
    /\ batch.status = "done"
    /\ Len(batch.entries) = 2
    /\ batch.entries[1].key # batch.entries[2].key
    /\ batch.entries[1].ttlSeconds = None
    /\ batch.entries[2].ttlSeconds # None
    /\ hist[batch.entries[1].key].last = "mset"
    /\ hist[batch.entries[2].key].last = "mset"
    /\ StoredExpired(hist[batch.entries[2].key])
    /\ ret.op = "get"
    /\ ret.key = batch.entries[1].key
    /\ ret.result = batch.entries[1].value

(***************************************************************************)
(* Claims about the Upstash provider.                                      *)
(***************************************************************************)
\* C4: when the backend call fails, get resolves to null, exists resolves to
\* false and mget resolves to as many nulls as it was given keys; none of the
\* three ever rejects.
C4_ReadsFailSoft ==
    /\ uret.op \in {"get", "exists", "mget"} => uret.out.kind = "resolved"
    /\ (uret.op = "get" /\ uret.beErr # NoErr) => uret.out.value = Null
    /\ (uret.op = "exists" /\ uret.beErr # NoErr) => uret.out.flag = FALSE
    /\ uret.op = "mget" => Len(uret.out.values) = Len(uret.keys)
    /\ (uret.op = "mget" /\ uret.beErr # NoErr) =>
           \A i \in 1..Len(uret.keys) : uret.out.values[i] = Null

C4_Witness ==
    /\ uret.op = "mget"
    /\ uret.beErr # NoErr
    /\ Len(uret.keys) = 2
    /\ uret.keys[1] \in DOMAIN redis
    /\ uret.out.values = <<Null, Null>>

\* C5: when the backend call fails, set, delete, flush and mset reject with
\* the error the backend raised, after one call per set and no retry.
C5_WritesFailLoud ==
    /\ (uret.op \in {"set", "delete", "flush"} /\ uret.beErr # NoErr) =>
           /\ uret.out.kind = "rejected"
           /\ uret.out.error = uret.beErr
           /\ uret.calls = 1
    /\ (uret.op = "mset" /\ uret.beErr # NoErr) =>
           /\ uret.out.kind = "rejected"
           /\ uret.out.error = uret.beErr
           /\ uret.calls = mset.n
           /\ Len(mset.cmds) = mset.n

C5_Witness ==
    /\ uret.op = "mset"
    /\ uret.beErr = "E2"
    /\ uret.out.kind = "rejected"
    /\ uret.out.error = "E2"

\* C10 as stated: mset attempts a set for every entry even when some entry's
\* set fails, and the failure is surfaced to the caller only after all
\* per-entry attempts have completed.
C10_FailureAfterAllAttempts ==
    /\ mset.status # "idle" => Len(mset.sets) = mset.n
    /\ mset.status = "rejected" =>
           \A i \in 1..Len(mset.sets) : mset.sets[i] # "inflight"

\* C10 as amended: mset starts a set for every entry before any can fail, and
\* the failure is surfaced as soon as the first per-entry set rejects, with
\* that set's error, while other per-entry sets may still be in flight.
C10_AllStartedFailFast ==
    /\ mset.status # "idle" =>
           /\ Len(mset.sets) = mset.n
           /\ Len(mset.cmds) = mset.n
           /\ \A i \in 1..mset.n : mset.sets[i] \in {"inflight", "ok", "failed"}
    /\ uret.op = "msetStart" => uret.calls = mset.n
    /\ mset.status = "pending" =>
           \A i \in 1..Len(mset.sets) : mset.sets[i] # "failed"
    /\ mset.status = "rejected" =>
           /\ mset.error \in Errors
           /\ \E i \in 1..Len(mset.sets) : mset.sets[i] = "failed"
    /\ (uret.op = "mset" /\ uret.out.kind = "rejected") =>
           uret.out.error = uret.beErr

C10_Witness ==
    /\ mset.status = "rejected"
    /\ uret.op = "mset"
    /\ \E i \in 1..Len(mset.sets) : mset.sets[i] = "inflight"

(***************************************************************************)
(* Claims about FeesService.                                               *)
(***************************************************************************)
Answered(r) == reqs[r].pc = "done" /\ reqs[r].outcome = "resolved"

\* b was called after a had returned its response, for the same cache key,
\* and b found the key in the cache.
LaterHit(a, b) ==
    /\ a # b
    /\ Answered(a) /\ Answered(b)
    /\ CacheKeyOf(reqs[a]) = CacheKeyOf(reqs[b])
    /\ a \in reqs[b].doneBefore
    /\ reqs[b].hit

\* C6: a cache backend failure never makes a fee request fail: every
\* getSuggestedFees call resolves with a response, also when the provider's
\* get or set fails.
C6_FeeRequestNeverFails ==
    \A r \in ReqIds : reqs[r].pc = "done" => reqs[r].outcome = "resolved"

\* C8 as stated: a request that starts after an earlier request for the same
\* key has completed, and finds the entry in the cache, returns the identical
\* response as the earlier one, under every interleaving with other requests.
C8_LaterRequestSameResponse ==
    \A a, b \in ReqIds : LaterHit(a, b) => reqs[b].resp = reqs[a].resp

\* C8 as amended: the later request returns the identical response provided
\* no other request has written the key between the earlier request's own
\* cache access (its hit, or its write after a miss) and the later lookup.
C8_LaterRequestSameResponseUnlessOverwritten ==
    \A a, b \in ReqIds :
        (LaterHit(a, b) /\ reqs[a].ver = reqs[b].ver)
        => reqs[b].resp = reqs[a].resp

C8_Witness ==
    \E a, b \in ReqIds :
        /\ LaterHit(a, b)
        /\ ~reqs[a].hit
        /\ reqs[a].ver = reqs[b].ver
        /\ reqs[b].resp = reqs[a].resp
        /\ now > reqs[a].resp.timestamp

\* C9: every suggested-fees response to a request that supplies a depositor
\* contains exclusiveRelayer and exclusivityDeadline, whatever requests came
\* before it.
C9_DepositorGetsExclusivity ==
    \A r \in ReqIds :
        (Answered(r) /\ reqs[r].q.depositor # None) =>
            /\ reqs[r].resp.exclusiveRelayer # None
            /\ reqs[r].resp.exclusivityDeadline # None

\* C19: in every suggested-fees response, computed or served from the cache,
\* isAmountTooLow is true if and only if the request's amount, read as an
\* integer, is strictly less than 1000000.
C19_AmountTooLowIffBelowMinimum ==
    \A r \in ReqIds :
        (Answered(r) /\ reqs[r].method = "getSuggestedFees") =>
            (reqs[r].resp.isAmountTooLow <=> BigInt(reqs[r].q.amount) < 1000000)

C19_Witness ==
    \E a, b \in ReqIds :
        /\ Answered(a) /\ Answered(b)
        /\ reqs[a].hit /\ ~reqs[b].hit
        /\ reqs[a].q.amount = "999999" /\ reqs[a].resp.isAmountTooLow
        /\ reqs[b].q.amount = "1000000" /\ ~reqs[b].resp.isAmountTooLow

(***************************************************************************)
(* Claims about the application.                                           *)
(***************************************************************************)
\* A query with a non-numeric amount, a malformed token address or a
\* required parameter missing.
BadFeeQuery(raw) ==
    \/ raw.amount \in {None, <<"invalid">>}
    \/ raw.inputToken \in {None, <<"invalid-address">>}
    \/ raw.outputToken \in {None, <<"invalid-address">>}
    \/ raw.destinationChainId = None

BadLimitsQuery(raw) ==
    \/ raw.token \in {None, <<"invalid-address">>}
    \/ raw.destinationChainId = None

Rejected400(r) ==
    /\ reqs'[r].pc = "done"
    /\ reqs'[r].outcome = "invalid"
    /\ HttpStatus(reqs'[r]) = 400
    /\ reqs'[r].method = "none"
    /\ UNCHANGED <<cache, redis, wcount>>
    /\ \A x \in ReqIds \ {r} : reqs'[x] = reqs[x]

\* C18: a request to /api/suggested-fees or /api/limits whose query fails
\* schema validation is answered with status 400 and never reaches
\* FeesService: no service method is called, no cache get or set is made,
\* and the cache is unchanged.
C18_InvalidQueryRejected ==
    /\ [][\A r \in ReqIds, raw \in RawFeeQueries :
             (HttpSuggestedFees(r, raw) /\ BadFeeQuery(raw)) => Rejected400(r)]_vars
    /\ [][\A r \in ReqIds, raw \in RawLimitQueries :
             (HttpLimits(r, raw) /\ BadLimitsQuery(raw)) => Rejected400(r)]_vars
    /\ [](\A r \in ReqIds :
             reqs[r].outcome = "invalid" =>
                 /\ HttpStatus(reqs[r]) = 400
                 /\ reqs[r].method = "none"
                 /\ reqs[r].cached = Null /\ reqs[r].resp = Null)

C18_Witness ==
    \E a, b \in ReqIds :
        /\ reqs[a].outcome = "invalid"
        /\ reqs[a].raw.amount = <<"invalid">>
        /\ reqs[b].outcome = "invalid"
        /\ reqs[b].raw.token = <<"invalid-address">>
        /\ DOMAIN cache # {}

\* C20: the @across-protocol/sdk module is loaded only when the
\* sdk-validation endpoint is first called, never at application start, so
\* the application starts and serves its endpoints even when loading the SDK
\* fails.
C20_DeferredSdkLoading ==
    /\ app.sdk # "unloaded" => "/api/sdk-validation" \in app.served
    /\ app.state # "off" => app.state = "running"

(***************************************************************************)
(* Claims about how entries leave the in-memory map.                       *)
(***************************************************************************)
\* The entry carries a deadline and the clock is past it.
PastDeadline(entry, t) ==
    entry.expiresAt # <<>> /\ entry.expiresAt[1] # 0 /\ t > entry.expiresAt[1]

\* The step removes key k lawfully: a delete(k), a flush, or a get(k),
\* exists(k) or get(k) of an mget that found the entry past its deadline and
\* answered null / false.
LawfulRemoval(k) ==
    \/ ret'.op = "delete" /\ ret'.key = k
    \/ ret'.op = "flush"
    \/ /\ ret'.op \in {"get", "exists"}
       /\ ret'.key = k
       /\ PastDeadline(cache[k], now)
       /\ ret'.result = Null /\ ret'.flag = FALSE
    \/ /\ ret'.op = "mget"
       /\ PastDeadline(cache[k], now)
       /\ \E i \in 1..Len(ret'.keys) :
              ret'.keys[i] = k /\ ret'.results[i] = Null

\* C22: a key leaves the map only by delete(k), flush() or a get(k) or
\* exists(k) that finds now > expiresAt and answers null / false; a step
\* that only advances the clock leaves the map, and what getStats reports,
\* as it was, entries past their deadline included.
C22_LazyExpiry ==
    [][/\ \A k \in DOMAIN cache \ DOMAIN cache' : LawfulRemoval(k)
       /\ now' # now =>
              /\ cache' = cache
              /\ MemGetStats(cache') = MemGetStats(cache)]_vars

\* A get has just removed an entry past its deadline while the other key's
\* entry, also past its deadline, is still in the map and counted.
C22_Witness ==
    /\ ret.op = "get"
    /\ ret.result = Null
    /\ hist[ret.key].live
    /\ ret.key \notin DOMAIN cache
    /\ \E k \in DOMAIN cache :
           /\ PastDeadline(cache[k], now)
           /\ MemGetStats(cache).size = 1

\* The batch was two sets on one key, both have run, and nothing has
\* written or deleted the key since the second.
TwoSetsOn(k) ==
    /\ Len(batch.entries) = 2
    /\ batch.i = 2
    /\ batch.entries[1].key = k
    /\ batch.entries[2].key = k
    /\ hist[k].last = "mset"

\* C23: after two sets on one key the entry is the second set's alone: it
\* holds the second value; when the second set had no TTL it has no expiry
\* and get returns the second value whatever deadline the first set gave;
\* when the second set had TTL t it expires t seconds after the second set,
\* whether or not the first set had a TTL.
C23_LastWriteWins ==
    \A k \in Keys :
        TwoSetsOn(k) =>
            LET second == batch.entries[2]
                deadline == hist[k].setTime + second.ttlSeconds[1] * 1000
            IN  /\ k \in DOMAIN cache =>
                       /\ cache[k].value = second.value
                       /\ cache[k].expiresAt =
                              IF second.ttlSeconds = <<>> THEN <<>>
                              ELSE <<deadline>>
                /\ (ret.op = "get" /\ ret.key = k) =>
                       ret.result = IF second.ttlSeconds # <<>> /\ now > deadline
                                    THEN Null
                                    ELSE second.value

\* set(k, v1, t) then set(k, v2): a get after the first set's deadline
\* returns v2.
C23_Witness ==
    \E k \in Keys :
        /\ TwoSetsOn(k)
        /\ batch.entries[1].ttlSeconds # <<>>
        /\ batch.entries[2].ttlSeconds = <<>>
        /\ batch.entries[1].value # batch.entries[2].value
        /\ ret.op = "get" /\ ret.key = k
        /\ ret.result = batch.entries[2].value
        /\ now > hist[k].setTime + batch.entries[1].ttlSeconds[1] * 1000

\* C24: an entry set with an explicit ttlSeconds, 0 included, carries
\* expiresAt = time of the set + ttlSeconds * 1000 and a get after that
\* instant returns null; an entry set without ttlSeconds carries no
\* expiresAt.
C24_ExplicitTTLAlwaysStored ==
    \A k \in Keys :
        (hist[k].live /\ hist[k].last = "set") =>
            IF hist[k].ttl = <<>>
            THEN k \in DOMAIN cache => cache[k].expiresAt = <<>>
            ELSE LET deadline == hist[k].setTime + hist[k].ttl[1] * 1000
                 IN  /\ k \in DOMAIN cache => cache[k].expiresAt = <<deadline>>
                     /\ (ret.op = "get" /\ ret.key = k /\ now > deadline)
                            => ret.result = Null

(***************************************************************************)
(* Claims about the in-memory provider under interleaved callers.          *)
(***************************************************************************)
\* The map without key k; the map with k bound to entry e.
Without(k) == [x \in DOMAIN cache \ {k} |-> cache[x]]
With(k, e) == [x \in DOMAIN cache \cup {k} |-> IF x = k THEN e ELSE cache[x]]

\* What one turn of get(k) or exists(k) does to the map it finds, and what
\* it answers from that same map.
ReadTurn(k) ==
    IF k \notin DOMAIN cache
    THEN cache' = cache /\ ret'.result = Null /\ ret'.flag = FALSE
    ELSE IF PastDeadline(cache[k], now)
    THEN cache' = Without(k) /\ ret'.result = Null /\ ret'.flag = FALSE
    ELSE /\ cache' = cache
         /\ ret'.op = "get" => ret'.result = cache[k].value
         /\ ret'.op = "exists" => ret'.flag = TRUE

\* C25: every get, set, delete, exists and flush reads the map and writes it
\* within its own step, also while an mset of another caller is suspended
\* between two of its sets: the map after the step is the map right before
\* it with this one operation applied, and get and exists answer from the
\* map right before the step.
C25_SingleTurnOperations ==
    [][/\ ret'.op \in {"get", "exists"} => ReadTurn(ret'.key)
       /\ ret'.op = "delete" => cache' = Without(ret'.key)
       /\ ret'.op = "flush" => DOMAIN cache' = {}
       /\ ret'.op = "msetSet" =>
              LET e == batch'.entries[batch'.i]
              IN  cache' = With(e.key,
                                [value |-> e.value,
                                 expiresAt |-> IF e.ttlSeconds = <<>> THEN <<>>
                                               ELSE <<now + e.ttlSeconds[1] * 1000>>])
       /\ ret'.op \in {"tick", "mset"} => cache' = cache]_vars

\* A get has found an entry past its deadline and removed it while an mset
\* was suspended before its second set.
C25_Witness ==
    /\ batch.status = "running"
    /\ batch.i < Len(batch.entries)
    /\ ret.op = "get"
    /\ ret.result = Null
    /\ hist[ret.key].live
    /\ ret.key \notin DOMAIN cache

\* C26: mset writes one entry per step, in input order, and is suspended
\* after each of them, the last included: the step that writes entry i
\* changes the key of entry i and nothing else, removes nothing, and leaves
\* the batch running; the step that completes the batch leaves the map as
\* it is.  Between two of these steps other callers run and see the prefix.
C26_MsetEntryByEntry ==
    [][/\ ret'.op = "msetSet" =>
              LET i == batch'.i
                  k == batch'.entries[i].key
              IN  /\ batch'.status = "running"
                  /\ i = IF batch'.entries = batch.entries /\ batch.status = "running"
                         THEN batch.i + 1 ELSE 1
                  /\ DOMAIN cache' = DOMAIN cache \cup {k}
                  /\ cache'[k].value = batch'.entries[i].value
                  /\ \A x \in DOMAIN cache \ {k} : cache'[x] = cache[x]
       /\ ret'.op = "mset" =>
              /\ batch'.status = "done"
              /\ cache' = cache
              /\ batch.status = "running" => batch.i = Len(batch.entries)]_vars

\* A get of another caller, run while a two-key mset is suspended after its
\* first set, finds the second key absent and the first entry in the map.
C26_Witness ==
    /\ batch.status = "running"
    /\ Len(batch.entries) = 2
    /\ batch.i = 1
    /\ batch.entries[1].key # batch.entries[2].key
    /\ ret.op = "get"
    /\ ret.key = batch.entries[2].key
    /\ ret.result = Null
    /\ batch.entries[2].key \notin DOMAIN cache
    /\ batch.entries[1].key \in DOMAIN cache
    /\ cache[batch.entries[1].key].value = batch.entries[1].value

\* C28: get(k), exists(k), set(k, ...) and delete(k) leave every key other
\* than k as it was, present or absent, value and expiry; get(k) and
\* exists(k) on a key that is absent, or present and not past its deadline,
\* leave the whole map as it was.
C28_SingleKeyFrame ==
    [][ret'.op \in {"get", "exists", "set", "delete"} =>
           LET k == ret'.key
           IN  /\ DOMAIN cache' \ {k} = DOMAIN cache \ {k}
               /\ \A x \in DOMAIN cache \ {k} : cache'[x] = cache[x]
               /\ ( /\ ret'.op \in {"get", "exists"}
                    /\ k \notin DOMAIN cache \/ ~PastDeadline(cache[k], now) )
                      => cache' = cache]_vars

\* An exists has just removed its own entry, past its deadline, and the
\* other key's entry, also past its deadline, is where it was.
C28_Witness ==
    /\ ret.op = "exists"
    /\ ret.flag = FALSE
    /\ hist[ret.key].live
    /\ ret.key \notin DOMAIN cache
    /\ \E k \in DOMAIN cache :
           /\ PastDeadline(cache[k], now)
           /\ cache[k].value = hist[k].value
           /\ cache[k].expiresAt = hist[k].expiresAt

(***************************************************************************)
(* Claims about the read-through cache of FeesService over the in-memory   *)
(* provider.                                                               *)
(***************************************************************************)
\* The lifetime, in milliseconds, of what a method caches.
LifetimeOf(method) == IF method = "getSuggestedFees" THEN 60000 ELSE 300000

\* Request r takes a step from pc p to pc q.
Moves(r, p, q) == reqs[r].pc = p /\ reqs'[r].pc = q

\* The requests that missed the cache on key k and have called set.
MissesOn(k) ==
    {r \in ReqIds : /\ reqs[r].method # "none"
                    /\ CacheKeyOf(reqs[r]) = k
                    /\ reqs[r].pc \in {"setDone", "done"}
                    /\ ~reqs[r].hit}

\* C27: a lookup that finds a response finds it no later than its entry's
\* deadline and leaves the cache as it is; the request then returns that
\* response without a set; a request that found nothing calls set once,
\* with a deadline 60 s (fees) or 300 s (limits) after the set; nothing else
\* changes an entry, so the number of sets on a key is the number of misses
\* on it and a fees response is never served more than 60 s after its
\* timestamp.
C27_HitsNeverWrite ==
    /\ [][\A r \in ReqIds :
             LET k == CacheKeyOf(reqs'[r])
             IN  /\ (Moves(r, "idle", "gotten") /\ reqs'[r].cached # Null) =>
                        /\ k \in DOMAIN cache
                        /\ reqs'[r].cached = cache[k].value
                        /\ now <= cache[k].expiresAt[1]
                        /\ cache' = cache /\ wcount' = wcount
                 /\ (reqs[r].pc = "gotten" /\ reqs[r].cached # Null
                        /\ reqs'[r] # reqs[r]) =>
                        /\ reqs'[r].pc = "done" /\ reqs'[r].hit
                        /\ reqs'[r].resp = reqs[r].cached
                        /\ cache' = cache /\ wcount' = wcount
                 /\ (reqs[r].pc = "gotten" /\ reqs[r].cached = Null
                        /\ reqs'[r] # reqs[r]) =>
                        /\ reqs'[r].pc = "setDone" /\ ~reqs'[r].hit
                        /\ wcount' = [wcount EXCEPT ![k] = @ + 1]
                        /\ cache'[k].value = reqs'[r].resp
                        /\ cache'[k].expiresAt =
                               <<now + LifetimeOf(reqs[r].method)>>
                 /\ Moves(r, "setDone", "done") =>
                        cache' = cache /\ wcount' = wcount]_vars
    /\ [][\A k \in DOMAIN cache \cap DOMAIN cache' :
             cache'[k] # cache[k] => wcount'[k] = wcount[k] + 1]_vars
    /\ [](\A k \in DOMAIN wcount : wcount[k] = Cardinality(MissesOn(k)))
    /\ [](\A k \in DOMAIN cache :
             k[1] = "fees" =>
                 cache[k].expiresAt = <<cache[k].value.timestamp + 60000>>)

\* A fees response was cached, served once from the cache, and after its
\* 60 s the next request for the same key missed and computed a new one.
C27_Witness ==
    \E a, b, c \in ReqIds :
        /\ Answered(a) /\ Answered(b) /\ Answered(c)
        /\ reqs[a].method = "getSuggestedFees"
        /\ CacheKeyOf(reqs[a]) = CacheKeyOf(reqs[b])
        /\ CacheKeyOf(reqs[a]) = CacheKeyOf(reqs[c])
        /\ ~reqs[a].hit /\ reqs[b].hit /\ ~reqs[c].hit
        /\ reqs[b].resp = reqs[a].resp
        /\ reqs[c].resp.timestamp > reqs[a].resp.timestamp + 60000
        /\ wcount[CacheKeyOf(reqs[a])] = 2

\* C29: GET /ready answers status "ready" only when the value read back
\* was "ok", and then with cache "connected"; when the probe write fails it
\* answers status "not_ready" with cache "error".
C29_ReadyOnlyAfterRoundTrip ==
    app.ready.pc = "done" =>
        /\ app.ready.status \in {"ready", "not_ready"}
        /\ app.ready.status = "ready" =>
               app.ready.value = ReadyOk /\ app.ready.cache = "connected"
        /\ app.ready.status = "not_ready" => app.ready.cache = "error"

\* C30: the span of a service call is not ended and carries no status while
\* the method is running; once the method has settled the span has been
\* ended exactly once; after a resolve its status is OK and withSpan has
\* returned the method's result; after a reject its status is ERROR, the
\* error is recorded on it and withSpan has thrown that same error.
C30_SpanEndedOnceAfterSettle ==
    \A r \in ReqIds :
        reqs[r].method # "none" =>
            IF reqs[r].pc # "done"
            THEN reqs[r].span.ends = 0 /\ reqs[r].span.status = "UNSET"
            ELSE /\ reqs[r].span.ends = 1
                 /\ reqs[r].outcome \in {"resolved", "rejected"}
                 /\ reqs[r].outcome = "resolved" =>
                        /\ reqs[r].span.status = "OK"
                        /\ reqs[r].resp # Null
                        /\ reqs[r].span.returned = reqs[r].resp
                        /\ reqs[r].span.thrown = "none"
                 /\ reqs[r].outcome = "rejected" =>
                        /\ reqs[r].span.status = "ERROR"
                        /\ reqs[r].error # "none"
                        /\ reqs[r].span.exception = reqs[r].error
                        /\ reqs[r].span.thrown = reqs[r].error
                        /\ reqs[r].span.returned = Null

\* One call has resolved and one has rejected, a third is still running.
C30_Witness ==
    \E a, b, c \in ReqIds :
        /\ reqs[a].pc = "done" /\ reqs[a].outcome = "resolved"
        /\ reqs[a].span.status = "OK" /\ reqs[a].span.ends = 1
        /\ reqs[b].pc = "done" /\ reqs[b].outcome = "rejected"
        /\ reqs[b].span.status = "ERROR" /\ reqs[b].span.ends = 1
        /\ reqs[b].span.thrown = "E1"
        /\ reqs[c].pc \in {"getting", "setting"}
        /\ reqs[c].span.ends = 0

\* Both dynamic imports were started and resolved with their module.
BothLoaded ==
    app.sdkPromise \in SdkModules /\ app.contractsPromise \in ContractsModules

IsFallbackAnswer(v) ==
    /\ v.loadedSuccessfully = FALSE
    /\ v.constantsAvailable = FALSE
    /\ v.chainsSupported = <<1, 10, 137, 42161, 8453, 59144>>

=============================================================================
